---- MODULE Spec2Model ----
(***************************************************************************)
(* Model of Benchmarking::run_benchmark as generated by impl_benchmark!    *)
(* (frame/support/src/weighing.rs): the sweep over the components of a     *)
(* selected benchmark, one pc location per statement of the function.      *)
(***************************************************************************)
EXTENDS Integers, Sequences, FiniteSets, TLC

\* ------------------------------------------------------------------ bounds
\* Component ranges are drawn from 0 <= low <= high <= MaxHigh.
MaxHigh == 3
\* `steps` is drawn from 0 .. MaxSteps, `repeat` from 0 .. MaxRepeat.
MaxSteps == 3
MaxRepeat == 2
\* The u32 of the code is modelled as a word of WordBits bits.
WordBits == 4
Word == 2 ^ WordBits

\* ------------------------------------------------------ names and messages
\* Identifiers as the byte strings stringify! gives them (ASCII).
NameFoo == <<102, 111, 111>>
NameBar == <<98, 97, 114>>
NameMax == <<109, 97, 120>>
\* The names the macro was invoked with: $( $name ),*
RegisteredNames == {NameFoo, NameBar, NameMax}

\* The `extrinsic: Vec<u8>` arguments tried: the registered names, a valid but
\* unregistered name ("baz"), the empty string, a two byte code point, a byte
\* that is never valid UTF-8, and a registered name followed by such a byte.
Extrinsics ==
    RegisteredNames \cup
    {<<98, 97, 122>>, <<>>, <<195, 169>>, <<255>>, <<102, 111, 111, 255>>}

ErrInvalidUtf8 == "Could not find extrinsic"
ErrNoMatch == "Could not find extrinsic."

\* Reasons an instancer / a dispatch may bail with (&'static str).
InstanceErrors == {"instancer failed", "bad origin"}
DispatchErrors == {"dispatch failed", "bad origin"}

\* BenchmarkParameter tags, in the order a case declares its parameters.
ParamIds == <<"l", "c">>

\* Durations one dispatch may take on the host clock.
Durations == {1, 2}

\* ----------------------------------------------------------------- helpers
Max(a, b) == IF a >= b THEN a ELSE b

None == [tag |-> "None"]
Ok(v) == [tag |-> "Ok", val |-> v]
Err(m) == [tag |-> "Err", msg |-> m]

\* sp_std::str::from_utf8 on the inputs above: one byte code points below
\* 0x80, two byte code points 0xC2..0xDF 0x80..0xBF; any other lead byte of
\* the inputs tried (0x80..0xC1, 0xF5..0xFF) is rejected.
RECURSIVE Utf8Decode(_)
Utf8Decode(bytes) ==
    IF bytes = <<>> THEN Ok(<<>>)
    ELSE IF bytes[1] < 128
    THEN LET rest == Utf8Decode(Tail(bytes))
         IN  IF rest.tag = "Ok" THEN Ok(<<bytes[1]>> \o rest.val) ELSE rest
    ELSE IF bytes[1] >= 194 /\ bytes[1] <= 223 /\ Len(bytes) >= 2
            /\ bytes[2] >= 128 /\ bytes[2] <= 191
    THEN LET rest == Utf8Decode(Tail(Tail(bytes)))
             cp == (bytes[1] - 192) * 64 + (bytes[2] - 128)
         IN  IF rest.tag = "Ok" THEN Ok(<<cp>> \o rest.val) ELSE rest
    ELSE Err(ErrInvalidUtf8)

\* Mutant of SelectBenchmark: the fallback arm picks a benchmark.
SelectBenchmarkDefault(str) ==
    IF str \in RegisteredNames THEN Ok(str) ELSE Ok(NameFoo)

\* match extrinsic { stringify!($name) => SelectedBenchmark::$name, _ => Err }
SelectBenchmark(str) ==
    IF str \in RegisteredNames THEN Ok(str) ELSE Err(ErrNoMatch)

\* The common parameters of the `_ { .. }` block: tag |-> <<from, to>>.
CommonPool == [l |-> <<1, 3>>, c |-> <<0, 2>>]

\* The three ways an arm declares a parameter:
\*   "own"     let p in from .. to => instancer;   (lines 222-236)
\*   "common"  let p in ...;                       (lines 237-259)
\*   "range"   let p in _ .. _ => instancer;       (lines 260-282)
ParamKinds == {"own", "common", "range"}

\* The PARAM { $param, $param_from, $param_to, .. } an arm is parsed to: the
\* arms for "common" and "range" take from and to of the common parameter of
\* that name. Written <<tag, from, to, kind>>.
ExpandParam(id, from, to, kind) ==
    IF kind = "own" THEN <<id, from, to, kind>>
    ELSE <<id, CommonPool[id][1], CommonPool[id][2], kind>>

\* The declarations a case may carry: up to Len(ParamIds) parameters with
\* distinct tags and from <= to.
Ranges == {lh \in (0 .. MaxHigh) \X (0 .. MaxHigh) : lh[1] <= lh[2]}
ParamsOf(id) ==
    {ExpandParam(id, lh[1], lh[2], "own") : lh \in Ranges}
        \cup {ExpandParam(id, 0, 0, k) : k \in ParamKinds \ {"own"}}
Declarations ==
    UNION {
        {d \in [1 .. n -> UNION {ParamsOf(ParamIds[i]) : i \in 1 .. n}] :
            \A i \in 1 .. n : d[i][1] = ParamIds[i]}
        : n \in 0 .. Len(ParamIds)}

\* What `bar` declares here: two parameters over the range of the examples,
\* let l in 0 .. 10 => ..; let c in 0 .. 10 => ..;
BarDeclaration == <<<<"l", 0, 10, "own">>, <<"c", 0, 10, "own">>>>

\* What `max` declares here: ranges that end at the largest u32.
MaxDeclaration == <<<<"l", Word - 4, Word - 1, "own">>, <<"c", 0, Word - 1, "own">>>>

\* The declaration of every SelectedBenchmark variant. `bar` and `max` are as
\* above; the declaration of `foo` ranges over Declarations in the runs that
\* name it (no other run reads it, and there it is the empty declaration).
Registries(name) ==
    {[n \in RegisteredNames |->
        IF n = NameFoo THEN decl ELSE IF n = NameBar THEN BarDeclaration ELSE MaxDeclaration] :
        decl \in IF name = NameFoo THEN Declarations ELSE {<<>>}}

\* fn components(&self): (BenchmarkParameter::$param, $param_from, $param_to)
ComponentsOf(decl) == [i \in 1 .. Len(decl) |-> <<decl[i][1], decl[i][2], decl[i][3]>>]

\* u32 arithmetic, wrapping at the word.
WSub(a, b) == (a - b + Word) % Word
WAdd(a, b) == (a + b) % Word
WMul(a, b) == (a * b) % Word

\* Mutant of StepSize: the .max(1) is missing.
StepSizeNoMax(low, high, stepsArg) == (high - low) \div stepsArg

\* let step_size = ((high - low) / steps).max(1);
StepSize(low, high, stepsArg) == Max(WSub(high, low) \div stepsArg, 1)

\* Mutant of NumOfSteps: the range is swept up to and including `high`.
NumOfStepsInclusive(low, high, stepSize) == (high - low) \div stepSize + 1

\* Mutant of NumOfSteps: at least one step is made.
NumOfStepsAtLeastOne(low, high, stepSize) == Max((high - low) \div stepSize, 1)

\* let num_of_steps = (high - low) / step_size;
NumOfSteps(low, high, stepSize) == WSub(high, low) \div stepSize

\* let component_value = low + step_size * s;
ComponentValue(low, stepSize, sArg) == WAdd(low, WMul(stepSize, sArg))

\* Mutant of MidValue: the offset `+ l` is missing.
MidValueNoLow(l, h) == (h - l) \div 2

\* Mutant of MidValue: the mean is taken as (l + h) / 2.
MidValueOfSum(l, h) == WAdd(l, h) \div 2

\* (h - l) / 2 + l
MidValue(l, h) == WAdd(WSub(h, l) \div 2, l)

\* Mutant of Assignment: only the swept component is given a value.
AssignmentTargetOnly(comps, name, value) == <<<<name, value>>>>

\* components.iter().map(|(n, l, h)| (*n, if n == name {..} else {..})).collect()
Assignment(comps, name, value) ==
    [i \in 1 .. Len(comps) |->
        <<comps[i][1],
          IF comps[i][1] = name THEN value ELSE MidValue(comps[i][2], comps[i][3])>>]

\* components.iter().find(|&c| c.0 == BenchmarkParameter::$param): is it Some?
HasParam(cArg, id) == \E i \in 1 .. Len(cArg) : cArg[i][1] = id

\* components.iter().find(|&c| c.0 == BenchmarkParameter::$param).unwrap().1
ParamValue(cArg, id) ==
    LET first == CHOOSE i \in 1 .. Len(cArg) :
                    cArg[i][1] = id /\ \A j \in 1 .. i - 1 : cArg[j][1] # id
    IN  cArg[first][2]

\* Mutant of InstancerOf: `_ .. _ => instancer` runs the common instancer.
InstancerOfRangeTakesCommon(id, kind) ==
    IF kind \in {"common", "range"} THEN "common" ELSE "own"

\* The $param_instancer of a parameter: the arm for `in ...` calls the closure
\* of the common parameter of that name (line 255), the other arms keep the
\* instancer written in the arm.
InstancerOf(id, kind) == IF kind = "common" THEN "common" ELSE "own"

\* The blocks instance() runs, in order (lines 363-369): the PRE lets, each
\* $param_instancer with the value of its parameter, then $post and the
\* construction of the call. Written <<block, tag, value>>.
InstancePlan(decl, cArg) ==
    <<<<"pre", "", 0>>>>
        \o [i \in 1 .. Len(decl) |->
              <<InstancerOf(decl[i][1], decl[i][4]), decl[i][1], ParamValue(cArg, decl[i][1])>>]
        \o <<<<"build", "", 0>>>>

\* The reason a block bails with.
ReasonOf(block) == IF block[1] \in {"own", "common"} THEN "instancer failed" ELSE "bad origin"

\* What the blocks run so far have written: every block but the construction
\* of the call populates state.
WritesOf(blocks) == {blocks[i] : i \in {j \in 1 .. Len(blocks) : blocks[j][1] # "build"}}

\* What the dispatched call writes.
CallWrites(cl) == {<<"call", "", 0>>}

\* The backing store: what is committed to the database and what is pending
\* in the overlay. The clean baseline holds neither.
Baseline == [db |-> {}, overlay |-> {}]
Stale == [db |-> {<<"stale", "", 0>>}, overlay |-> {<<"stale", "", 0>>}]

\* A write of the runtime lands in the overlay.
WriteTo(st, items) == [st EXCEPT !.overlay = @ \cup items]

\* sp_io::benchmarking::commit_db(): flush the pending writes.
CommitDb(st) == [db |-> st.db \cup st.overlay, overlay |-> {}]

\* sp_io::benchmarking::wipe_db(): restore the fixed starting state.
WipeDb(st) == Baseline

\* One call on a collaborator (or the push onto `results`), as logged.
Event(op, ok, arg) == [op |-> op, ok |-> ok, arg |-> arg]

\* ------------------------------------------------------------------- state
VARIABLES
    extrinsic,           \* argument: the benchmark's name, as bytes
    steps,               \* argument
    repeat,              \* argument
    registry,            \* the declaration of every SelectedBenchmark variant
    tick,                \* host clock: what one dispatch takes in this run
    pc,                  \* the statement run_benchmark is at
    selected_benchmark,
    components,
    results,
    ci,                  \* position of `for (name, low, high) in components.iter()`
    step_size,
    num_of_steps,
    s,
    component_value,
    c,
    r,                   \* position of `for _ in 0..repeat`
    call,                \* the (call, caller) instance() returned
    start,
    finish,
    now,                 \* sp_io::benchmarking::current_time()
    store,               \* the backing store
    evaluated,           \* the blocks the latest instance() ran, in order
    failed,              \* the position of the block of it that bailed, or 0
    trace,               \* the calls made so far, in order
    rowOf,               \* for each row of `results`, the loop position that pushed it
    ret                  \* what run_benchmark returned

vars ==
    <<extrinsic, steps, repeat, registry, tick, pc, selected_benchmark, components,
      results, ci, step_size, num_of_steps, s, component_value, c, r, call, start,
      finish, now, store, evaluated, failed, trace,
      rowOf, ret>>

inputs == <<extrinsic, steps, repeat, registry, tick>>
locals == <<selected_benchmark, components, ci, step_size, num_of_steps, s, component_value, c, r>>
timing == <<call, start, finish, now>>
setup == <<evaluated, failed>>

Name == components[ci][1]
Low == components[ci][2]
High == components[ci][3]

\* The arm of the selected benchmark, and whether every `let $param = ..find(..)
\* .unwrap().1` of its instance() finds its parameter (lines 358-362).
Declared == registry[selected_benchmark]
LookupsSucceed == \A i \in 1 .. Len(Declared) : HasParam(c, Declared[i][1])

\* The instance() calls made so far.
InstanceCalls == Cardinality({i \in 1 .. Len(trace) : trace[i].op = "instance"})

Init ==
    /\ extrinsic \in Extrinsics
    /\ steps \in 0 .. MaxSteps
    /\ repeat \in 0 .. MaxRepeat
    /\ registry \in Registries(extrinsic)
    /\ tick \in Durations
    /\ pc = "start"
    /\ selected_benchmark = <<>>
    /\ components = <<>>
    /\ results = <<>>
    /\ ci = 0
    /\ step_size = 0
    /\ num_of_steps = 0
    /\ s = 0
    /\ component_value = 0
    /\ c = <<>>
    /\ r = 0
    /\ call = None
    /\ start = 0
    /\ finish = 0
    /\ now = 0
    /\ store \in {Baseline, Stale}
    /\ evaluated = <<>>
    /\ failed = 0
    /\ trace = <<>>
    /\ rowOf = <<>>
    /\ ret = None

\* ----------------------------------------------------------------- actions
\* `?` and `return Err(..)`: leave the function with an error.
Bail(msg) ==
    /\ ret' = Err(msg)
    /\ pc' = "done"

\* lines 129-134: from_utf8, then the match on the name.
Lookup ==
    /\ pc = "start"
    /\ LET decoded == Utf8Decode(extrinsic)
           selected == SelectBenchmark(decoded.val)
       IN  IF decoded.tag = "Err"
           THEN Bail(decoded.msg) /\ UNCHANGED selected_benchmark
           ELSE IF selected.tag = "Err"
           THEN Bail(selected.msg) /\ UNCHANGED selected_benchmark
           ELSE /\ selected_benchmark' = selected.val
                /\ pc' = "warmup_commit"
                /\ ret' = ret
    /\ UNCHANGED <<inputs, components, results, ci, step_size, num_of_steps, s,
                   component_value, c, r, timing, store, setup, trace, rowOf>>

\* line 137: sp_io::benchmarking::commit_db()
WarmupCommit ==
    /\ pc = "warmup_commit"
    /\ store' = CommitDb(store)
    /\ trace' = Append(trace, Event("commit", TRUE, <<>>))
    /\ pc' = "warmup_wipe"
    /\ UNCHANGED <<inputs, locals, results, timing, setup, rowOf, ret>>

\* Mutant of WarmupWipe: the warm-up does not wipe.
WarmupWipeSkipped ==
    /\ pc = "warmup_wipe"
    /\ pc' = "components"
    /\ UNCHANGED <<inputs, locals, results, timing, store, setup, trace, rowOf, ret>>

\* line 138: sp_io::benchmarking::wipe_db()
WarmupWipe ==
    /\ pc = "warmup_wipe"
    /\ store' = WipeDb(store)
    /\ trace' = Append(trace, Event("wipe", TRUE, <<>>))
    /\ pc' = "components"
    /\ UNCHANGED <<inputs, locals, results, timing, setup, rowOf, ret>>

\* lines 141-143: components(&selected_benchmark); results = Vec::new()
Components ==
    /\ pc = "components"
    /\ components' = ComponentsOf(Declared)
    /\ trace' = Append(trace, Event("components", TRUE, <<>>))
    /\ results' = <<>>
    /\ ci' = 1
    /\ pc' = "for_component"
    /\ UNCHANGED <<inputs, selected_benchmark, step_size, num_of_steps, s,
                   component_value, c, r, timing, store, setup, rowOf, ret>>

\* line 145: the next component, or line 177 when there is none left.
ForComponent ==
    /\ pc = "for_component"
    /\ pc' = IF ci <= Len(components) THEN "step_size" ELSE "return"
    /\ UNCHANGED <<inputs, locals, results, timing, store, setup, trace, rowOf, ret>>

\* line 147; a division by zero panics.
ComputeStepSize ==
    /\ pc = "step_size"
    /\ IF steps = 0
       THEN pc' = "panicked" /\ UNCHANGED step_size
       ELSE step_size' = StepSize(Low, High, steps) /\ pc' = "num_of_steps"
    /\ UNCHANGED <<inputs, selected_benchmark, components, ci, num_of_steps, s,
                   component_value, c, r, results, timing, store, setup, trace,
                   rowOf, ret>>

\* lines 148-149; a division by zero panics.
ComputeNumOfSteps ==
    /\ pc = "num_of_steps"
    /\ IF step_size = 0
       THEN pc' = "panicked" /\ UNCHANGED <<num_of_steps, s>>
       ELSE /\ num_of_steps' = NumOfSteps(Low, High, step_size)
            /\ s' = 0
            /\ pc' = "for_s"
    /\ UNCHANGED <<inputs, selected_benchmark, components, ci, step_size,
                   component_value, c, r, results, timing, store, setup, trace,
                   rowOf, ret>>

\* line 149: for s in 0..num_of_steps
ForS ==
    /\ pc = "for_s"
    /\ IF s < num_of_steps
       THEN pc' = "assign" /\ ci' = ci
       ELSE pc' = "for_component" /\ ci' = ci + 1
    /\ UNCHANGED <<inputs, selected_benchmark, components, step_size, num_of_steps, s,
                   component_value, c, r, results, timing, store, setup, trace,
                   rowOf, ret>>

\* Mutant of Assign: the pairs are collected in no fixed order.
AssignAnyOrder ==
    /\ pc = "assign"
    /\ component_value' = ComponentValue(Low, step_size, s)
    /\ LET a == Assignment(components, Name, component_value')
       IN  c' \in {a, [i \in 1 .. Len(a) |-> a[Len(a) + 1 - i]]}
    /\ r' = 0
    /\ pc' = "for_repeat"
    /\ UNCHANGED <<inputs, selected_benchmark, components, ci, step_size, num_of_steps,
                   s, results, timing, store, setup, trace, rowOf, ret>>

\* lines 151-157, and the start of the loop of line 160.
Assign ==
    /\ pc = "assign"
    /\ component_value' = ComponentValue(Low, step_size, s)
    /\ c' = Assignment(components, Name, component_value')
    /\ r' = 0
    /\ pc' = "for_repeat"
    /\ UNCHANGED <<inputs, selected_benchmark, components, ci, step_size, num_of_steps,
                   s, results, timing, store, setup, trace, rowOf, ret>>

\* Mutant of ForRepeat: instance() is called for the first repeat of a step
\* only, and its call is dispatched again in the later ones.
ForRepeatReusingCall ==
    /\ pc = "for_repeat"
    /\ IF r < repeat
       THEN pc' = (IF r = 0 THEN "instance" ELSE "commit") /\ s' = s
       ELSE pc' = "for_s" /\ s' = s + 1
    /\ UNCHANGED <<inputs, selected_benchmark, components, ci, step_size, num_of_steps,
                   component_value, c, r, results, timing, store, setup, trace,
                   rowOf, ret>>

\* line 160: for _ in 0..repeat
ForRepeat ==
    /\ pc = "for_repeat"
    /\ IF r < repeat
       THEN pc' = "instance" /\ s' = s
       ELSE pc' = "for_s" /\ s' = s + 1
    /\ UNCHANGED <<inputs, selected_benchmark, components, ci, step_size, num_of_steps,
                   component_value, c, r, results, timing, store, setup, trace,
                   rowOf, ret>>

\* .unwrap() on a None (line 361) panics.
UnwrapNone ==
    /\ pc' = "unwrap_none"
    /\ UNCHANGED <<call, store, setup, trace, ret>>

\* Mutant of RunBlocks: the blocks after the failing one run as well.
RunBlocksAll(plan, last) == plan

\* The blocks of `plan` that run when block `last` is the last one to run: the
\* `?` of a block that fails leaves instance() (lines 363-369).
RunBlocks(plan, last) == SubSeq(plan, 1, last)

\* line 162, instance() returning Ok((call, caller))
InstanceOk ==
    /\ pc = "instance"
    /\ IF LookupsSucceed
       THEN LET plan == InstancePlan(Declared, c)
            IN  /\ evaluated' = RunBlocks(plan, Len(plan))
                /\ failed' = 0
                /\ store' = WriteTo(store, WritesOf(evaluated'))
                /\ call' = [name |-> selected_benchmark, c |-> c, id |-> InstanceCalls + 1]
                /\ trace' = Append(trace, Event("instance", TRUE, call'))
                /\ pc' = "commit"
                /\ ret' = ret
       ELSE UnwrapNone
    /\ UNCHANGED <<inputs, locals, results, start, finish, now, rowOf>>

\* Mutant of InstanceFailed: the rows gathered so far are returned.
InstanceFailedPartial(e) ==
    /\ ret' = Ok(results)
    /\ pc' = "done"

\* What run_benchmark does with an Err(e) of instance(): the `?` of line 162.
InstanceFailed(e) == Bail(e)

\* line 162, instance() returning Err(e): one of its blocks bailed.
InstanceErr ==
    /\ pc = "instance"
    /\ IF LookupsSucceed
       THEN LET plan == InstancePlan(Declared, c)
            IN  \E failing \in 1 .. Len(plan) : \E e \in InstanceErrors :
                   /\ e = ReasonOf(plan[failing])
                   /\ evaluated' = RunBlocks(plan, failing)
                   /\ failed' = failing
                   /\ store' = WriteTo(store, WritesOf(evaluated'))
                   /\ trace' = Append(trace, Event("instance", FALSE, e))
                   /\ InstanceFailed(e)
                   /\ call' = call
       ELSE UnwrapNone
    /\ UNCHANGED <<inputs, locals, results, start, finish, now, rowOf>>

\* Mutant of Commit: the database is not committed before the dispatch.
CommitSkipped ==
    /\ pc = "commit"
    /\ pc' = "dispatch"
    /\ UNCHANGED <<inputs, locals, results, timing, store, setup, trace, rowOf, ret>>

\* line 165: sp_io::benchmarking::commit_db()
Commit ==
    /\ pc = "commit"
    /\ store' = CommitDb(store)
    /\ trace' = Append(trace, Event("commit", TRUE, <<>>))
    /\ pc' = "dispatch"
    /\ UNCHANGED <<inputs, locals, results, timing, setup, rowOf, ret>>

\* lines 167-169, call.dispatch(..) returning Ok
DispatchOk ==
    /\ pc = "dispatch"
    /\ start' = now
    /\ now' = now + tick
    /\ finish' = now'
    /\ store' = WriteTo(store, CallWrites(call))
    /\ trace' = Append(trace, Event("dispatch", TRUE, call))
    /\ pc' = "push"
    /\ UNCHANGED <<inputs, locals, results, call, setup, rowOf, ret>>

\* Mutant of DispatchFailed: the error is dropped and the run is recorded.
DispatchFailedIgnored(e) ==
    /\ ret' = ret
    /\ pc' = "push"

\* What run_benchmark does with an Err(e) of dispatch(): the `?` of line 168.
DispatchFailed(e) == Bail(e)

\* Mutant of DispatchErr: the database is wiped before the error is returned.
DispatchErrWiped ==
    /\ pc = "dispatch"
    /\ start' = now
    /\ now' = now + tick
    /\ store' = WipeDb(WriteTo(store, CallWrites(call)))
    /\ \E e \in DispatchErrors :
          /\ trace' = trace \o <<Event("dispatch", FALSE, e), Event("wipe", TRUE, <<>>)>>
          /\ DispatchFailed(e)
    /\ UNCHANGED <<inputs, locals, results, call, finish, setup, rowOf>>

\* lines 167-168, call.dispatch(..) returning Err(e); what the call wrote
\* before it failed stays written.
DispatchErr ==
    /\ pc = "dispatch"
    /\ start' = now
    /\ now' = now + tick
    /\ store' = WriteTo(store, CallWrites(call))
    /\ \E e \in DispatchErrors :
          /\ trace' = Append(trace, Event("dispatch", FALSE, e))
          /\ DispatchFailed(e)
    /\ UNCHANGED <<inputs, locals, results, call, finish, setup, rowOf>>

\* Mutant of Push: the row is put in front of the rows gathered so far.
PushFront ==
    /\ pc = "push"
    /\ LET elapsed == finish - start
       IN  results' = <<<<c, elapsed>>>> \o results
    /\ rowOf' = <<[ci |-> ci, s |-> s, r |-> r]>> \o rowOf
    /\ trace' = Append(trace, Event("push", TRUE, <<>>))
    /\ pc' = "wipe"
    /\ UNCHANGED <<inputs, locals, timing, store, setup, ret>>

\* lines 170-171: results.push((c.clone(), elapsed))
Push ==
    /\ pc = "push"
    /\ LET elapsed == finish - start
       IN  results' = Append(results, <<c, elapsed>>)
    /\ rowOf' = Append(rowOf, [ci |-> ci, s |-> s, r |-> r])
    /\ trace' = Append(trace, Event("push", TRUE, <<>>))
    /\ pc' = "wipe"
    /\ UNCHANGED <<inputs, locals, timing, store, setup, ret>>

\* Mutant of Wipe: the database is not wiped after the run.
WipeSkipped ==
    /\ pc = "wipe"
    /\ r' = r + 1
    /\ pc' = "for_repeat"
    /\ UNCHANGED <<inputs, selected_benchmark, components, ci, step_size, num_of_steps,
                   s, component_value, c, results, timing, store, setup, trace,
                   rowOf, ret>>

\* line 173: sp_io::benchmarking::wipe_db(), and the end of the loop body.
Wipe ==
    /\ pc = "wipe"
    /\ store' = WipeDb(store)
    /\ trace' = Append(trace, Event("wipe", TRUE, <<>>))
    /\ r' = r + 1
    /\ pc' = "for_repeat"
    /\ UNCHANGED <<inputs, selected_benchmark, components, ci, step_size, num_of_steps,
                   s, component_value, c, results, timing, setup, rowOf, ret>>

\* line 177: return Ok(results)
Return ==
    /\ pc = "return"
    /\ ret' = Ok(results)
    /\ pc' = "done"
    /\ UNCHANGED <<inputs, locals, results, timing, store, setup, trace, rowOf>>

Next ==
    \/ Lookup
    \/ WarmupCommit
    \/ WarmupWipe
    \/ Components
    \/ ForComponent
    \/ ComputeStepSize
    \/ ComputeNumOfSteps
    \/ ForS
    \/ Assign
    \/ ForRepeat
    \/ InstanceOk
    \/ InstanceErr
    \/ Commit
    \/ DispatchOk
    \/ DispatchErr
    \/ Push
    \/ Wipe
    \/ Return

Spec == Init /\ [][Next]_vars

\* run_benchmark is one sequential function: a statement that can run, runs.
FairSpec == Spec /\ WF_vars(Next)

\* ------------------------------------------------------------ properties
\* The sweep of a component as section 4.3 of the specification words it.
DeclStepSize(comp) == Max(1, (comp[3] - comp[2]) \div steps)
DeclNumSteps(comp) == (comp[3] - comp[2]) \div DeclStepSize(comp)
DeclMid(comp) == comp[2] + (comp[3] - comp[2]) \div 2

\* The rows of `results` pushed while component k was swept.
RowsOf(k) == {i \in 1 .. Len(results) : rowOf[i].ci = k}
\* The value row i gives the component that was swept when it was pushed.
TargetValue(i) == results[i][1][rowOf[i].ci][2]
IsInterval(S) == \A i \in S : \A j \in S : \A m \in i .. j : m \in S

Returned == pc = "done" /\ ret.tag = "Ok"

\* C1: in a successful run every row pushed while sweeping component k gives k
\* the value low + step_size * s for some s in 0 .. num_steps - 1 and gives
\* every other declared component its midpoint low + (high - low) / 2.
C1_RowsSweepTargetOthersAtMid ==
    Returned =>
        /\ Len(rowOf) = Len(ret.val)
        /\ \A i \in 1 .. Len(ret.val) :
              LET k == rowOf[i].ci
                  row == ret.val[i][1]
              IN  /\ k \in 1 .. Len(components)
                  /\ Len(row) = Len(components)
                  /\ \E sv \in 0 .. DeclNumSteps(components[k]) - 1 :
                        \A j \in 1 .. Len(components) :
                           /\ row[j][1] = components[j][1]
                           /\ row[j][2] =
                                 IF j = k
                                 THEN components[k][2] + DeclStepSize(components[k]) * sv
                                 ELSE DeclMid(components[j])

\* C1 witness: A:[0,10), B:[0,10), steps = 2, repeat = 1 returned the rows
\* (A=0,B=5), (A=5,B=5), (A=5,B=0), (A=5,B=5).
C1_Witness ==
    /\ Returned
    /\ components = <<<<"l", 0, 10>>, <<"c", 0, 10>>>>
    /\ steps = 2
    /\ repeat = 1
    /\ [i \in 1 .. Len(ret.val) |-> ret.val[i][1]] =
          << <<<<"l", 0>>, <<"c", 5>>>>, <<<<"l", 5>>, <<"c", 5>>>>,
             <<<<"l", 5>>, <<"c", 0>>>>, <<<<"l", 5>>, <<"c", 5>>>> >>

\* Positions of the trace, and the loop body's statements.
Events == 1 .. Len(trace)
Op(i) == trace[i].op
InTimedRun == pc \in {"instance", "commit", "dispatch", "push", "wipe"}
InStepBody == InTimedRun \/ pc \in {"assign", "for_repeat"}

\* C2: within a timed run the calls go instance -> commit -> dispatch ->
\* append -> wipe: a dispatch directly follows a commit that directly follows
\* the run's instance(), a successful dispatch is directly followed by the
\* append and the wipe, and an instance() directly follows components() or the
\* wipe of the run before it.
C2_TimedRunOrder ==
    \A i \in Events :
        /\ Op(i) = "dispatch" =>
              /\ i >= 3
              /\ Op(i - 1) = "commit"
              /\ Op(i - 2) = "instance" /\ trace[i - 2].ok
        /\ (Op(i) = "dispatch" /\ trace[i].ok) =>
              /\ i = Len(trace) => pc = "push"
              /\ i + 1 <= Len(trace) => Op(i + 1) = "push"
              /\ i + 1 = Len(trace) => pc = "wipe"
              /\ i + 2 <= Len(trace) => Op(i + 2) = "wipe"
        /\ Op(i) = "instance" =>
              /\ i >= 2
              /\ Op(i - 1) \in {"components", "wipe"}
              /\ Op(i - 1) = "wipe" => (i >= 3 /\ Op(i - 2) = "push")

\* C2 witness: a second timed run has reached its dispatch.
C2_Witness ==
    \E i \in Events : \E j \in Events :
        /\ i < j
        /\ Op(i) = "dispatch" /\ trace[i].ok
        /\ Op(j) = "dispatch"

\* C3: for a registered case the warm-up happens exactly once: the first two
\* calls are one commit and one wipe, they come before components() and before
\* any instance() or dispatch, and every later commit or wipe belongs to a
\* timed run (the commit after its instance(), the wipe after its append).
C3_WarmupOnceBeforeSweep ==
    /\ pc = "warmup_wipe" => trace = <<Event("commit", TRUE, <<>>)>>
    /\ (selected_benchmark \in RegisteredNames /\ pc \notin {"warmup_commit", "warmup_wipe"}) =>
          /\ Len(trace) >= 2
          /\ Op(1) = "commit"
          /\ Op(2) = "wipe"
    /\ \A i \in Events :
          /\ Op(i) \in {"components", "instance", "dispatch", "push"} => i > 2
          /\ Op(i) = "components" => i = 3
          /\ (Op(i) = "commit" /\ i > 1) => (i > 3 /\ Op(i - 1) = "instance")
          /\ (Op(i) = "wipe" /\ i > 2) => (i > 3 /\ Op(i - 1) = "push")

\* C3 witness: a registered case returned after at least two timed runs.
C3_Witness ==
    /\ Returned
    /\ selected_benchmark \in RegisteredNames
    /\ Len(results) >= 2

\* C4: in a successful run the sweep of each component contributes
\* num_steps * repeat rows, so the list has as many rows as the sum of
\* num_steps(c) * repeat over the components.
RECURSIVE DeclRows(_)
DeclRows(comps) ==
    IF comps = <<>> THEN 0
    ELSE DeclNumSteps(Head(comps)) * repeat + DeclRows(Tail(comps))

C4_RowCountPerComponent ==
    Returned =>
        /\ ret.val = results
        /\ \A k \in 1 .. Len(components) :
              Cardinality(RowsOf(k)) = DeclNumSteps(components[k]) * repeat
        /\ Len(ret.val) = DeclRows(components)

\* C4 witness: two components of several steps each, every step repeated.
C4_Witness ==
    /\ Returned
    /\ Len(components) = 2
    /\ repeat = 2
    /\ \A k \in 1 .. 2 : DeclNumSteps(components[k]) >= 2
    /\ DeclNumSteps(components[1]) # DeclNumSteps(components[2])

\* C5: the returned list is in execution order: the rows of a component
\* declared earlier precede those of one declared later, within a component
\* the target's value ascends, and each (component, step) assignment fills
\* exactly `repeat` consecutive rows.
C5_RowsInExecutionOrder ==
    Returned =>
        /\ ret.val = results
        /\ \A i \in 1 .. Len(results) : \A j \in 1 .. Len(results) :
              i < j =>
                 /\ rowOf[i].ci <= rowOf[j].ci
                 /\ rowOf[i].ci = rowOf[j].ci => TargetValue(i) <= TargetValue(j)
        /\ \A k \in 1 .. Len(components) :
              \A sv \in 0 .. DeclNumSteps(components[k]) - 1 :
                 LET value == components[k][2] + DeclStepSize(components[k]) * sv
                     rows == {i \in RowsOf(k) : TargetValue(i) = value}
                 IN  /\ Cardinality(rows) = repeat
                     /\ IsInterval(rows)
                     /\ \A i \in rows : \A j \in rows : results[i][1] = results[j][1]

\* C5 witness: two components were swept over several steps, each repeated.
C5_Witness ==
    /\ Returned
    /\ repeat = 2
    /\ \E i \in 1 .. Len(results) : \E j \in 1 .. Len(results) :
          /\ rowOf[i].ci = 1 /\ rowOf[j].ci = 2
          /\ TargetValue(i) > components[1][2]
          /\ TargetValue(j) > components[2][2]

\* C6: if instance() fails at any run of the sweep, run_benchmark makes no
\* further call and returns the error with that reason; the rows gathered so
\* far are not returned.
C6_InstanceFailureDiscardsRows ==
    \A i \in Events :
        (Op(i) = "instance" /\ ~trace[i].ok) =>
            /\ i = Len(trace)
            /\ pc = "done"
            /\ ret = Err(trace[i].arg)

\* C6 witness: instance() failed after rows had been gathered.
C6_Witness ==
    /\ pc = "done"
    /\ trace # <<>>
    /\ Op(Len(trace)) = "instance" /\ ~trace[Len(trace)].ok
    /\ Len(results) >= 2

\* C7: if the dispatch fails, the sweep stops there: the error is returned with
\* the reason, no row is appended for the failing run, and no further
\* instance(), commit or dispatch is made.
C7_DispatchFailureAborts ==
    \A i \in Events :
        (Op(i) = "dispatch" /\ ~trace[i].ok) =>
            /\ i = Len(trace)
            /\ pc = "done"
            /\ ret = Err(trace[i].arg)
            /\ Len(results) = Cardinality({j \in Events : Op(j) = "dispatch" /\ trace[j].ok})

\* C7 witness: the dispatch failed with repeats, steps and a component left.
C7_Witness ==
    /\ pc = "done"
    /\ trace # <<>>
    /\ Op(Len(trace)) = "dispatch" /\ ~trace[Len(trace)].ok
    /\ Len(results) >= 1
    /\ r + 1 < repeat
    /\ s + 1 < num_of_steps
    /\ ci < Len(components)

\* C8: a name that is not a registered case (also one that is not UTF-8)
\* returns the not-found error, and no commit, wipe, instance() or dispatch is
\* made.
C8_UnknownNameTouchesNothing ==
    extrinsic \notin RegisteredNames =>
        /\ trace = <<>>
        /\ pc \in {"start", "done"}
        /\ pc = "done" => (ret.tag = "Err" /\ ret.msg \in {ErrInvalidUtf8, ErrNoMatch})

\* C8 witness: run_benchmark returned for a registered name followed by a byte
\* that is not UTF-8.
C8_Witness ==
    /\ pc = "done"
    /\ extrinsic = NameFoo \o <<255>>

\* C9 as stated: a component with low == high is swept in exactly one step and
\* contributes `repeat` timed runs.
C9_ZeroWidthOneStep ==
    /\ (pc = "for_s" /\ Low = High) => num_of_steps = 1
    /\ Returned =>
          \A k \in 1 .. Len(components) :
             components[k][2] = components[k][3] => Cardinality(RowsOf(k)) = repeat

\* C9 as amended: a component with low == high is swept in no step at all
\* (num_of_steps == 0): the loop body is never entered for it and it
\* contributes no row.
C9_ZeroWidthNoStep ==
    /\ (pc = "for_s" /\ Low = High) => num_of_steps = 0
    /\ InStepBody => Low < High
    /\ \A i \in 1 .. Len(rowOf) : components[rowOf[i].ci][2] < components[rowOf[i].ci][3]

\* C9 witness: the sweep of a zero-width component is at its loop head, with
\* steps and repeat positive.
C9_Witness ==
    /\ pc = "for_s"
    /\ Low = High
    /\ steps > 0
    /\ repeat > 0

\* C10: with low <= high and steps > 0 the step size is at least 1, so the
\* division that gives num_of_steps does not divide by zero.
C10_StepSizePositive ==
    steps > 0 =>
        /\ pc # "panicked"
        /\ (pc = "num_of_steps" \/ pc = "for_s" \/ InStepBody) =>
              (Low <= High /\ step_size >= 1)

\* C10 witness: the step size was computed for a range narrower than `steps`.
C10_Witness ==
    /\ pc = "num_of_steps"
    /\ steps > 0
    /\ High - Low < steps

\* The assignments a sweep makes, as a function of the declaration, `steps`
\* and `repeat` alone (section 4.3 of the specification).
DeclAssignment(comps, k, sv) ==
    [j \in 1 .. Len(comps) |->
        <<comps[j][1],
          IF j = k THEN comps[k][2] + DeclStepSize(comps[k]) * sv ELSE DeclMid(comps[j])>>]

RECURSIVE DeclStepRows(_, _, _)
DeclStepRows(comps, k, sv) ==
    IF sv >= DeclNumSteps(comps[k]) THEN <<>>
    ELSE [i \in 1 .. repeat |-> DeclAssignment(comps, k, sv)] \o DeclStepRows(comps, k, sv + 1)

RECURSIVE DeclSweep(_, _)
DeclSweep(comps, k) ==
    IF k > Len(comps) THEN <<>>
    ELSE DeclStepRows(comps, k, 0) \o DeclSweep(comps, k + 1)

AssignmentsOf(rows) == [i \in 1 .. Len(rows) |-> rows[i][1]]
IsPrefix(a, b) == Len(a) <= Len(b) /\ \A i \in 1 .. Len(a) : a[i] = b[i]

\* C11: two runs of the same case with the same steps and repeat return the
\* same assignments in the same order: the assignments pushed are at every
\* moment a prefix of, and on return equal to, a sequence fixed by the
\* declaration, steps and repeat alone; the clock and the outcomes of
\* instance() and dispatch decide only the elapsed values and where a run stops.
C11_AssignmentsFixedByInputs ==
    /\ steps = 0 => results = <<>>
    /\ steps > 0 => IsPrefix(AssignmentsOf(results), DeclSweep(components, 1))
    /\ (Returned /\ steps > 0) => AssignmentsOf(ret.val) = DeclSweep(components, 1)

\* C11 witness: a sweep of two components returned under the slower clock,
\* with the elapsed values of that clock.
C11_Witness ==
    /\ Returned
    /\ tick = 2
    /\ Len(components) = 2
    /\ Len(ret.val) >= 4
    /\ \A i \in 1 .. Len(ret.val) : ret.val[i][2] = 2

\* C15 as stated: the sweep of a component makes at most `steps` steps.
C15_AtMostStepsSteps ==
    (pc = "for_s" /\ steps > 0) => num_of_steps <= steps

\* --------------------------------------------------------------------- C12
\* What the setup of the run under way writes when every block of it runs.
SetupWrites == WritesOf(InstancePlan(Declared, c))

\* C12: every timed run starts from the same store: at each call of
\* instance() the store is at the clean baseline, and at the dispatch it holds
\* the committed writes of this run's own setup and nothing else.
C12_RunsStartFromBaseline ==
    /\ pc = "instance" => store = Baseline
    /\ pc = "dispatch" => store = CommitDb(WriteTo(Baseline, SetupWrites))

\* A dispatch is about to run after earlier runs with another assignment.
C12_Witness ==
    /\ pc = "dispatch"
    /\ Len(results) >= 2
    /\ results[1][1] # c
    /\ store.db # {}

\* --------------------------------------------------------------------- C13
OkInstances == {i \in Events : trace[i].op = "instance" /\ trace[i].ok}
OkDispatches == {i \in Events : trace[i].op = "dispatch" /\ trace[i].ok}

\* C13: the call is created afresh for every timed run: the call a dispatch
\* executes is the one returned by the instance() two calls before it, no call
\* is dispatched twice, and a successful run called instance() once per row.
C13_FreshCallPerRun ==
    /\ pc \in {"commit", "dispatch"} =>
          \E i \in OkInstances : i >= Len(trace) - 1 /\ trace[i].arg = call
    /\ \A i \in OkDispatches :
          /\ i - 2 \in OkInstances
          /\ trace[i].arg = trace[i - 2].arg
    /\ Cardinality({trace[i].arg.id : i \in OkDispatches}) = Cardinality(OkDispatches)
    /\ Returned => Cardinality(OkInstances) = Len(ret.val)

\* A run returned in which two runs of one step dispatched distinct calls
\* made for the same assignment.
C13_Witness ==
    /\ Returned
    /\ \E i, j \in OkDispatches :
          /\ j = i + 5
          /\ trace[i].arg.c = trace[j].arg.c
          /\ trace[i].arg.id # trace[j].arg.id

\* --------------------------------------------------------------------- C14
\* C14: instance() evaluates only instancers of parameters the case declares;
\* the common default of a parameter is evaluated only where the case takes
\* the parameter whole from the common pool (`let p in ...;`), and a case that
\* takes only the range (`_ .. _ => own`) evaluates its own instancer.
C14_OnlyDeclaredInstancersRun ==
    \A k \in 1 .. Len(evaluated) :
        evaluated[k][1] \in {"own", "common"} =>
            \E i \in 1 .. Len(Declared) :
                /\ Declared[i][1] = evaluated[k][2]
                /\ evaluated[k][1] = "common" <=> Declared[i][4] = "common"

\* A case that declares only `l`, with the common range and its own instancer,
\* has been instanced; the common pool also holds `c`.
C14_Witness ==
    /\ pc = "commit"
    /\ Len(Declared) = 1
    /\ Declared[1][4] = "range"
    /\ \E k \in 1 .. Len(evaluated) : evaluated[k][1] = "own" /\ evaluated[k][2] = "l"
    /\ "c" \in DOMAIN CommonPool

\* --------------------------------------------------------------------- C16
\* `a` has one entry per component of `comps`, in their order, each inside
\* the range of its component.
CoversComponents(a, comps) ==
    /\ Len(a) = Len(comps)
    /\ \A i \in 1 .. Len(comps) :
          /\ a[i][1] = comps[i][1]
          /\ comps[i][2] <= a[i][2]
          /\ a[i][2] <= comps[i][3]

\* C16: every assignment handed to instance() has exactly one entry per
\* declared component, in declaration order, each value within [low, high] and
\* the swept one strictly below high; no lookup of instance() finds its
\* parameter missing.
C16_AssignmentCoversComponents ==
    /\ (pc = "for_repeat" \/ InTimedRun) =>
          /\ CoversComponents(c, components)
          /\ c[ci][2] < High
          /\ LookupsSucceed
    /\ \A i \in OkInstances : CoversComponents(trace[i].arg.c, components)
    /\ pc # "unwrap_none"

\* instance() is being called for the last step of the second of two
\* components, with the first at its midpoint.
C16_Witness ==
    /\ pc = "instance"
    /\ Len(components) = 2
    /\ ci = 2
    /\ s = num_of_steps - 1
    /\ s > 0
    /\ c[1][2] = DeclMid(components[1])
    /\ c[1][2] > components[1][2]

\* --------------------------------------------------------------------- C17
\* C17: instance() runs the pre-block first, then the instancers one by one in
\* declaration order, then the build step; when a block fails nothing after it
\* runs, so a failing instancer k leaves the later instancers and the build
\* step unrun.
C17_PreThenInstancersThenBuild ==
    evaluated # <<>> =>
        /\ Len(evaluated) <= Len(Declared) + 2
        /\ \A k \in 1 .. Len(evaluated) :
              /\ k = 1 => evaluated[k][1] = "pre"
              /\ (1 < k /\ k <= Len(Declared) + 1) =>
                    /\ evaluated[k][1] \in {"own", "common"}
                    /\ evaluated[k][2] = Declared[k - 1][1]
              /\ k = Len(Declared) + 2 => evaluated[k][1] = "build"
        /\ pc \in {"commit", "dispatch", "push", "wipe"} =>
              failed = 0 /\ Len(evaluated) = Len(Declared) + 2
        /\ failed # 0 => Len(evaluated) = failed

\* The instancer of the first of two parameters failed.
C17_Witness ==
    /\ pc = "done"
    /\ failed = 2
    /\ Len(Declared) = 2
    /\ ret = Err("instancer failed")
    /\ evaluated[2][2] = "l"

\* --------------------------------------------------------------------- C18
\* The store operations made so far, and the last of them.
StoreOpNames == {"commit", "wipe", "instance", "dispatch"}
RECURSIVE LastStoreOpUpTo(_)
LastStoreOpUpTo(n) ==
    IF n = 0 \/ trace[n].op \in StoreOpNames THEN n ELSE LastStoreOpUpTo(n - 1)
LastStoreOp == trace[LastStoreOpUpTo(Len(trace))]
Failures == {i \in Events : ~trace[i].ok}

\* C18: after a failure of instance() or of the dispatch no wipe runs: the
\* store keeps what the failing run wrote (its setup writes in the overlay,
\* and for a dispatch failure the committed setup with the writes of the
\* call), and only a run that returns its rows ends on a wipe.
C18_FailureLeavesStoreDirty ==
    /\ Failures # {} =>
          /\ pc = "done"
          /\ ret.tag = "Err"
          /\ Failures = {Len(trace)}
          /\ LastStoreOp.op # "wipe"
          /\ store # Baseline
          /\ LastStoreOp.op = "instance" =>
                store = WriteTo(Baseline, WritesOf(evaluated))
          /\ LastStoreOp.op = "dispatch" =>
                store = WriteTo(CommitDb(WriteTo(Baseline, SetupWrites)), CallWrites(call))
    /\ Returned => LastStoreOp.op = "wipe" /\ store = Baseline
    /\ (pc = "done" /\ LastStoreOpUpTo(Len(trace)) # 0 /\ LastStoreOp.op = "wipe") => Returned

\* A dispatch failed after a row had been recorded.
C18_Witness ==
    /\ pc = "done"
    /\ results # <<>>
    /\ LastStoreOp.op = "dispatch"
    /\ ~LastStoreOp.ok
    /\ store.db # {}
    /\ store.overlay # {}

\* --------------------------------------------------------------------- C20
\* C20: with low <= high and steps > 0 no u32 operation of the sweep wraps:
\* step_size * s, low + step_size * s and (high - low) / 2 + low, computed in
\* words, are the exact values, which are at most high - low, high and high.
C20_NoWordOverflow ==
    /\ (pc = "for_repeat" \/ InTimedRun) =>
          /\ step_size = DeclStepSize(components[ci])
          /\ step_size * s <= High - Low
          /\ component_value = Low + step_size * s
          /\ component_value <= High
          /\ \A i \in 1 .. Len(components) :
                i # ci =>
                    /\ c[i][2] = DeclMid(components[i])
                    /\ c[i][2] <= components[i][3]
    /\ pc = "for_s" => num_of_steps = DeclNumSteps(components[ci])

\* The last step of a component whose high is the largest word, next to a
\* component whose low + high does not fit a word.
C20_Witness ==
    /\ pc = "dispatch"
    /\ High = Word - 1
    /\ s > 0
    /\ s = num_of_steps - 1
    /\ \E i \in 1 .. Len(components) :
          i # ci /\ components[i][2] + components[i][3] >= Word

\* --------------------------------------------------------------------- C19
FailedCalls == {i \in Events : trace[i].op \in {"instance", "dispatch"} /\ ~trace[i].ok}

\* C19: for a registered case, steps > 0 and repeat > 0 the run ends: it never
\* panics, it returns, and what it returns is either every row, after exactly
\* sum(num_steps) * repeat dispatches, or the error of the first failed call,
\* which is the last call it made.
C19_SweepTerminates ==
    /\ [](  (extrinsic \in RegisteredNames /\ steps > 0 /\ repeat > 0) =>
              /\ pc \notin {"panicked", "unwrap_none"}
              /\ FailedCalls \subseteq {Len(trace)}
              /\ pc = "done" =>
                    \/ /\ ret.tag = "Ok"
                       /\ FailedCalls = {}
                       /\ Cardinality(OkDispatches) = DeclRows(components)
                       /\ Len(ret.val) = DeclRows(components)
                    \/ /\ ret.tag = "Err"
                       /\ FailedCalls = {Len(trace)}
                       /\ ret.msg = trace[Len(trace)].arg
                       /\ Cardinality(OkDispatches) < DeclRows(components)  )
    /\ (extrinsic \in RegisteredNames /\ steps > 0 /\ repeat > 0) ~> (pc = "done")

\* The whole sweep of `bar` returned: 3 steps of each of its 2 components,
\* twice each.
C19_Witness ==
    /\ Returned
    /\ extrinsic = NameBar
    /\ steps = 3
    /\ repeat = 2
    /\ Cardinality(OkDispatches) = 12
    /\ Len(ret.val) = 12

============================================================================
